---- MODULE Spec2Model ----
(***************************************************************************)
(* Model of onnxruntime/python/tools/transformers/fusion_base.py: the      *)
(* Fusion base class (constructor, increase_counter, apply, the            *)
(* add_initializer helper) together with the part of OnnxModel it drives.  *)
(***************************************************************************)
EXTENDS Integers, Sequences, FiniteSets, TLC

VARIABLES
    graph,                  \* OnnxModel: graph name -> sequence of nodes (graph.node)
    initializer,            \* OnnxModel: graph name -> sequence of tensors (graph.initializer)
    graph_output,           \* OnnxModel: declared output tensor names of the model
    orphans,                \* OnnxModel: nodes the node index lists but no graph owns
    search_op_types,        \* Fusion.search_op_types
    fused_op_type,          \* Fusion.fused_op_type
    description,            \* Fusion.description
    nodes_to_remove,        \* Fusion.nodes_to_remove
    nodes_to_add,           \* Fusion.nodes_to_add
    prune_graph,            \* Fusion.prune_graph
    node_name_to_graph_name,\* Fusion.node_name_to_graph_name
    this_graph_name,        \* Fusion.this_graph_name
    fused_count,            \* Fusion.fused_count
    pc,                     \* position of the caller / of apply()
    input_name_to_nodes,    \* local of apply(): consumer map
    output_name_to_node,    \* local of apply(): producer map
    type_idx,               \* local of apply(): position in search_op_types
    queue,                  \* local of apply(): nodes of the current type not yet visited
    log,                    \* logger.info records of the current apply()
    trace,                  \* calls made by the current apply(), in order
    returned,               \* last add_initializer call: arguments, outcome, returned tensor
    applies,                \* number of apply() calls started
    graph0,                 \* graph at the start of the current apply()
    initializer0,           \* initializer at the start of the current apply()
    recorded,               \* side effects fuse calls have recorded since construction
    recorded0,              \* value of recorded when the current apply() started
    committed               \* list entries handed to the Graph Model since construction

vars == << graph, initializer, graph_output, orphans, search_op_types, fused_op_type,
           description, nodes_to_remove, nodes_to_add, prune_graph,
           node_name_to_graph_name, this_graph_name, fused_count, pc,
           input_name_to_nodes, output_name_to_node, type_idx, queue, log, trace,
           returned, applies, graph0, initializer0, recorded, recorded0, committed >>

----------------------------------------------------------------------------
(* Bounds of the model *)

MaxApply == 2        \* apply() calls per pass object
MaxEdits == 2        \* side effects fuse calls record over the life of a pass
MaxVals == 2         \* elements of a values payload

----------------------------------------------------------------------------
(* Nodes, tensors and graphs *)

None == "None"

MainGraph == "main"
SubGraph == "sub"
GraphNames == << MainGraph, SubGraph >>
GraphNameSet == { GraphNames[i] : i \in 1..Len(GraphNames) }

\* NodeProto records: name, op_type, input, output.
NodeA == [name |-> "A", op_type |-> "MatMul", input |-> <<"x">>, output |-> <<"t1">>]
NodeB == [name |-> "B", op_type |-> "Add", input |-> <<"t1">>, output |-> <<"t2">>]
NodeC == [name |-> "C", op_type |-> "Relu", input |-> <<"t2">>, output |-> <<"t3">>]
NodeD == [name |-> "D", op_type |-> "Add", input |-> <<"t3">>, output |-> <<"y">>]
\* Nodes a pass may construct.
NodeAB == [name |-> "AB1", op_type |-> "AB", input |-> <<"x">>, output |-> <<"t2">>]
NodeN == [name |-> "N1", op_type |-> "Cast", input |-> <<"x">>, output |-> <<"t9">>]

NewNodes == { NodeAB, NodeN }

Range(s) == { s[i] : i \in 1..Len(s) }

----------------------------------------------------------------------------
(* OnnxModel: the Graph Model that apply() and add_initializer drive *)

RECURSIVE Concat(_, _)
Concat(f, names) ==
    IF names = <<>> THEN <<>> ELSE f[Head(names)] \o Concat(f, Tail(names))

\* OnnxModel.nodes(): the nodes of every graph of the hierarchy, in order.
nodes(g) == Concat(g, GraphNames)

\* OnnxModel.get_nodes_by_op_type: the index lists the graphs' nodes and the orphans.
get_nodes_by_op_type(g, orph, op_type) ==
    SelectSeq(nodes(g) \o orph, LAMBDA n : n.op_type = op_type)

RECURSIVE FirstGraphWith(_, _, _)
FirstGraphWith(g, names, node) ==
    IF names = <<>> THEN None
    ELSE IF node \in Range(g[Head(names)]) THEN Head(names)
    ELSE FirstGraphWith(g, Tail(names), node)

\* OnnxModel.get_graph_by_node: the name of the owning graph, or None.
get_graph_by_node(g, node) == FirstGraphWith(g, GraphNames, node)

\* OnnxModel.input_name_to_nodes(): tensor name -> consumers, in node order.
InputNameToNodes(g) ==
    LET used == UNION { Range(n.input) : n \in Range(nodes(g)) }
    IN  [t \in used |-> SelectSeq(nodes(g), LAMBDA n : t \in Range(n.input))]

\* OnnxModel.output_name_to_node(): tensor name -> producer (the last one listed).
OutputNameToNode(g) ==
    LET ns == nodes(g)
        made == UNION { Range(n.output) : n \in Range(ns) }
        last(t) == CHOOSE i \in 1..Len(ns) :
                      /\ t \in Range(ns[i].output)
                      /\ \A j \in (i+1)..Len(ns) : t \notin Range(ns[j].output)
    IN  [t \in made |-> ns[last(t)]]

\* list.remove: drops the first entry equal to node.
RECURSIVE RemoveFirst(_, _)
RemoveFirst(s, node) ==
    IF s = <<>> THEN <<>>
    ELSE IF Head(s) = node THEN Tail(s)
    ELSE <<Head(s)>> \o RemoveFirst(Tail(s), node)

\* OnnxModel.remove_node: removes node from the graph that owns it.
remove_node(g, node) ==
    LET owner == get_graph_by_node(g, node)
    IN  [g EXCEPT ![owner] = RemoveFirst(@, node)]

\* OnnxModel.remove_nodes: removes the listed nodes in order; a node that no graph
\* holds is a structural-consistency error that stops the commit there.
RECURSIVE remove_nodes(_, _)
remove_nodes(g, list) ==
    IF list = <<>> THEN [graph |-> g, failed |-> FALSE, count |-> 0]
    ELSE IF get_graph_by_node(g, Head(list)) = None
         THEN [graph |-> g, failed |-> TRUE, count |-> 0]
         ELSE LET r == remove_nodes(remove_node(g, Head(list)), Tail(list))
              IN  [r EXCEPT !.count = @ + 1]

\* OnnxModel.add_node: appends node to the named graph (the top-level one for None).
add_node(g, node, graph_name) ==
    IF graph_name = None \/ graph_name = MainGraph
    THEN [g EXCEPT ![MainGraph] = Append(@, node)]
    ELSE [g EXCEPT ![graph_name] = Append(@, node)]

\* OnnxModel.add_nodes: adds the listed nodes in order, each into the graph recorded
\* for its name; a recorded scope that is no graph of the hierarchy is an error.
RECURSIVE add_nodes(_, _, _)
add_nodes(g, list, name_to_graph) ==
    IF list = <<>> THEN [graph |-> g, failed |-> FALSE, count |-> 0]
    ELSE LET node == Head(list)
             known == node.name \in DOMAIN name_to_graph
             scope == IF known THEN name_to_graph[node.name] ELSE None
         IN  IF ~known \/ scope \notin GraphNameSet
             THEN [graph |-> g, failed |-> TRUE, count |-> 0]
             ELSE LET r == add_nodes(add_node(g, node, scope), Tail(list), name_to_graph)
                  IN  [r EXCEPT !.count = @ + 1]

\* Tensor names needed to compute the declared outputs, by backward reachability.
RECURSIVE Needed(_, _, _)
Needed(ns, need, k) ==
    IF k = 0 THEN need
    ELSE Needed(ns,
                need \cup UNION { Range(n.input) :
                                    n \in { m \in Range(ns) : Range(m.output) \cap need # {} } },
                k - 1)

\* OnnxModel.prune_graph: drops every node that reaches no declared output.
prune(g, outputs) ==
    LET ns == nodes(g)
        need == Needed(ns, outputs, Len(ns))
    IN  [name \in GraphNameSet |->
            SelectSeq(g[name], LAMBDA n : Range(n.output) \cap need # {})]

\* OnnxModel.update_graph: incremental re-link and re-validation; the node lists stay.
update_graph(g) == g

\* OnnxModel.add_initializer: registers tensor in the named scope (top level for None).
model_add_initializer(inits, tensor, graph_name) ==
    IF graph_name = None \/ graph_name = MainGraph
    THEN [inits EXCEPT ![MainGraph] = Append(@, tensor)]
    ELSE [inits EXCEPT ![graph_name] = Append(@, tensor)]

----------------------------------------------------------------------------
(* add_initializer: numpy conversion and tensor construction *)

\* helper.tensor_dtype_to_np_dtype: the numpy element type of a tensor data type.
tensor_dtype_to_np_dtype(data_type) ==
    CASE data_type = "FLOAT" -> "float32"
      [] data_type = "INT8" -> "int8"
      [] data_type = "INT64" -> "int64"

\* numpy dtype.itemsize: bytes per element.
itemsize(np_type) ==
    CASE np_type = "float32" -> 4
      [] np_type = "int8" -> 1
      [] np_type = "int64" -> 8

Pow2(k) == 2 ^ k

\* Largest e with 2^e <= m, for m >= 1.
RECURSIVE FloorLog2(_)
FloorLog2(m) == IF m < 2 THEN 0 ELSE 1 + FloorLog2(m \div 2)

\* Byte k (1 = least significant) of the two's complement encoding of v.
IntByte(v, k) ==
    LET low(u) == IF k <= 3 THEN (u \div Pow2(8 * (k - 1))) % 256 ELSE 0
    IN  IF v >= 0 THEN low(v) ELSE 255 - low(-v - 1)

\* Byte k (1 = least significant) of the IEEE-754 single precision encoding of the
\* integer v: sign bit, 8 exponent bits, 23 mantissa bits.
FloatByte(v, k) ==
    IF v = 0 THEN 0
    ELSE LET m == IF v < 0 THEN -v ELSE v
             e == FloorLog2(m)
             mantissa == (m - Pow2(e)) * Pow2(23 - e)
             exponent == 127 + e
         IN  CASE k = 1 -> mantissa % 256
               [] k = 2 -> (mantissa \div 256) % 256
               [] k = 3 -> ((mantissa \div 65536) % 128) + 128 * (exponent % 2)
               [] k = 4 -> (exponent \div 2) + (IF v < 0 THEN 128 ELSE 0)

\* Little-endian bytes of one element of type np_type.
ElementBytes(v, np_type) ==
    [k \in 1..itemsize(np_type) |->
        IF np_type = "float32" THEN FloatByte(v, k) ELSE IntByte(v, k)]

\* The value an element of type np_type holds after conversion of v: the integer
\* types wrap to their width.
ConvertElement(v, np_type) ==
    IF np_type = "int8" THEN ((v + 128) % 256) - 128 ELSE v

\* Mutant of astype: the conversion to np_type is skipped and the array keeps its type.
astype_kept(vals, np_type) ==
    IF vals.dtype = "str"
    THEN [ok |-> FALSE, dtype |-> np_type, data |-> <<>>]
    ELSE [ok |-> TRUE, dtype |-> vals.dtype, data |-> vals.data]

\* ndarray.astype: the array converted to np_type; text does not convert.
astype(vals, np_type) ==
    IF vals.dtype = "str"
    THEN [ok |-> FALSE, dtype |-> np_type, data |-> <<>>]
    ELSE [ok |-> TRUE, dtype |-> np_type,
          data |-> [i \in 1..Len(vals.data) |-> ConvertElement(vals.data[i], np_type)]]

RECURSIVE Flatten(_)
Flatten(ss) == IF ss = <<>> THEN <<>> ELSE Head(ss) \o Flatten(Tail(ss))

\* ndarray.tobytes: the elements' bytes, in order.
tobytes(arr) ==
    Flatten([i \in 1..Len(arr.data) |-> ElementBytes(arr.data[i], arr.dtype)])

RECURSIVE Product(_)
Product(dims) == IF dims = <<>> THEN 1 ELSE Head(dims) * Product(Tail(dims))

NoTensor == [name |-> "", data_type |-> "", dims |-> <<>>, raw |-> FALSE,
             raw_data |-> <<>>, data |-> <<>>]

\* helper.make_tensor: a TensorProto holding the payload as raw bytes or as typed
\* elements; the payload's length must agree with dims.
make_tensor(name, data_type, dims, vals, raw) ==
    LET expected_size ==
            (IF raw THEN itemsize(tensor_dtype_to_np_dtype(data_type)) ELSE 1) * Product(dims)
    IN  IF Len(vals) # expected_size
        THEN [ok |-> FALSE, tensor |-> NoTensor]
        ELSE [ok |-> TRUE,
              tensor |-> [name |-> name, data_type |-> data_type, dims |-> dims, raw |-> raw,
                          raw_data |-> IF raw THEN vals ELSE <<>>,
                          data |-> IF raw THEN <<>> ELSE vals]]

\* Fusion.add_initializer, up to the registration: the tensor built from the call's
\* arguments, or the failure of the assertion, of the conversion or of make_tensor.
build_tensor(call) ==
    IF call.raw
    THEN IF ~call.vals.ndarray
         THEN [ok |-> FALSE, tensor |-> NoTensor]
         ELSE LET np_type == tensor_dtype_to_np_dtype(call.data_type)
                  arr == astype(call.vals, np_type)
              IN  IF ~arr.ok
                  THEN [ok |-> FALSE, tensor |-> NoTensor]
                  ELSE make_tensor(call.name, call.data_type, call.dims, tobytes(arr), TRUE)
    ELSE make_tensor(call.name, call.data_type, call.dims, call.vals.data, FALSE)

\* Mutant of add_initializer: the registration does not wait for the construction; a
\* failed construction leaves an empty tensor registered.
add_initializer_eager(inits, scope, call) ==
    LET built == build_tensor(call)
    IN  [ok |-> built.ok, tensor |-> built.tensor,
         initializer |-> model_add_initializer(inits, built.tensor, scope)]

\* Fusion.add_initializer: registers the tensor in scope this_graph_name and returns it;
\* a failed construction registers nothing.
add_initializer(inits, scope, call) ==
    LET built == build_tensor(call)
    IN  IF built.ok
        THEN [ok |-> TRUE, tensor |-> built.tensor,
              initializer |-> model_add_initializer(inits, built.tensor, scope)]
        ELSE [ok |-> FALSE, tensor |-> NoTensor, initializer |-> inits]

----------------------------------------------------------------------------
(* Fusion: construction *)

\* Arguments the constructor is called with; search_op_types is a str or a list.
CtorArgs ==
    { [fused_op_type |-> "AB", is_str |-> TRUE, search |-> <<"Add">>, description |-> ""],
      [fused_op_type |-> "AB", is_str |-> FALSE, search |-> <<"MatMul", "Add">>,
       description |-> "chain"],
      [fused_op_type |-> "AB", is_str |-> FALSE, search |-> <<"Gelu">>, description |-> ""],
      [fused_op_type |-> "AB", is_str |-> FALSE, search |-> <<"Add", "Add">>,
       description |-> ""],
      [fused_op_type |-> "AB", is_str |-> FALSE, search |-> <<"Add", "MatMul">>,
       description |-> ""] }

\* Models the pass is constructed on.
InitialModels ==
    { [graph |-> [g \in GraphNameSet |-> IF g = MainGraph THEN <<NodeA, NodeB, NodeC>> ELSE <<>>],
       output |-> {"t3"}, orphans |-> <<>>],
      [graph |-> [g \in GraphNameSet |-> IF g = MainGraph THEN <<NodeA, NodeB>>
                                                           ELSE <<NodeC, NodeD>>],
       output |-> {"y"}, orphans |-> <<>>],
      [graph |-> [g \in GraphNameSet |-> IF g = MainGraph THEN <<NodeA, NodeB, NodeC>> ELSE <<>>],
       output |-> {"t3"}, orphans |-> <<NodeD>>] }

\* Fusion.__init__, line 28: a str becomes a one-element list.
SearchOpTypes(arg) == IF arg.is_str THEN <<arg.search[1]>> ELSE arg.search

\* Fusion.__init__, line 30.
Description(fused, desc) == IF desc # "" THEN fused \o "(" \o desc \o ")" ELSE fused

NoCall == [called |-> FALSE, name |-> "", data_type |-> "", dims |-> <<>>,
           vals |-> [ndarray |-> FALSE, dtype |-> "", data |-> <<>>], raw |-> FALSE]

NoReturn == [call |-> NoCall, ok |-> FALSE, tensor |-> NoTensor, scope |-> None,
             candidate |-> ""]

Init ==
    /\ \E m \in InitialModels :
          /\ graph = m.graph
          /\ graph_output = m.output
          /\ orphans = m.orphans
          /\ graph0 = m.graph
    /\ initializer = [g \in GraphNameSet |-> <<>>]
    /\ initializer0 = [g \in GraphNameSet |-> <<>>]
    /\ recorded = 0
    /\ recorded0 = 0
    /\ \E arg \in CtorArgs :
          /\ search_op_types = SearchOpTypes(arg)
          /\ fused_op_type = arg.fused_op_type
          /\ description = Description(arg.fused_op_type, arg.description)
    /\ nodes_to_remove = <<>>
    /\ nodes_to_add = <<>>
    /\ prune_graph = FALSE
    /\ node_name_to_graph_name = <<>>
    /\ this_graph_name = None
    /\ fused_count = <<>>
    /\ pc = "idle"
    /\ input_name_to_nodes = <<>>
    /\ output_name_to_node = <<>>
    /\ type_idx = 0
    /\ queue = <<>>
    /\ log = <<>>
    /\ trace = <<>>
    /\ returned = NoReturn
    /\ applies = 0
    /\ committed = [rem |-> <<>>, add |-> <<>>]

----------------------------------------------------------------------------
(* Fusion: what a pass's fuse may do *)

\* Fusion.increase_counter: fused_count is a defaultdict(int), kept in insertion order.
increase_counter(count, fused_op_name) ==
    IF \E i \in 1..Len(count) : count[i].key = fused_op_name
    THEN [i \in 1..Len(count) |->
            IF count[i].key = fused_op_name
            THEN [count[i] EXCEPT !.value = @ + 1] ELSE count[i]]
    ELSE Append(count, [key |-> fused_op_name, value |-> 1])

\* dict assignment d[key] = value.
DictSet(d, key, value) ==
    [k \in DOMAIN d \cup {key} |-> IF k = key THEN value ELSE d[k]]

\* add_initializer calls a pass makes while fusing.
FuseInitCalls ==
    { [called |-> TRUE, name |-> "bias", data_type |-> "FLOAT", dims |-> <<1>>,
       vals |-> [ndarray |-> TRUE, dtype |-> "int64", data |-> <<1>>], raw |-> TRUE],
      [called |-> TRUE, name |-> "bias", data_type |-> "FLOAT", dims |-> <<1>>,
       vals |-> [ndarray |-> TRUE, dtype |-> "str", data |-> <<1>>], raw |-> TRUE] }

\* Node lists a pass finds from a candidate through the producer map: the candidate,
\* one of its producers, or both.
Matchable(node, producers) ==
    LET parents == { producers[t] : t \in Range(node.input) \cap DOMAIN producers }
    IN  { <<node>> } \cup { <<p>> : p \in parents } \cup { <<p, node>> : p \in parents }

----------------------------------------------------------------------------
(* Fusion.apply *)

Event(ev, name) == [ev |-> ev, node |-> name]

Bump(counts, n) == [i \in 1..n |-> IF i <= Len(counts) THEN counts[i] + 1 ELSE 1]

\* Mutant of report: the derived count is logged even when it is zero.
report_zero(count, added, fused, desc) ==
    LET op_list == [i \in 1..Len(added) |-> added[i].op_type]
    IN  IF count # <<>>
        THEN SelectSeq(count, LAMBDA e : e.value # 0)
        ELSE << [key |-> desc, value |-> Len(SelectSeq(op_list, LAMBDA t : t = fused))] >>

\* Mutant of report: the derived count tallies every added node, whatever its type.
report_all(count, added, fused, desc) ==
    IF count # <<>>
    THEN SelectSeq(count, LAMBDA e : e.value # 0)
    ELSE IF Len(added) > 0 THEN << [key |-> desc, value |-> Len(added)] >> ELSE <<>>

\* Lines 73-81: what logger.info is given after the scan.
report(count, added, fused, desc) ==
    LET op_list == [i \in 1..Len(added) |-> added[i].op_type]
    IN  IF count # <<>>
        THEN SelectSeq(count, LAMBDA e : e.value # 0)
        ELSE LET n == Len(SelectSeq(op_list, LAMBDA t : t = fused))
             IN  IF n > 0 THEN << [key |-> desc, value |-> n] >> ELSE <<>>

\* Mutant of maintenance: pruning runs only when an edit was recorded.
maintenance_edits_only(prune_flag, removed, added) ==
    IF removed = <<>> /\ added = <<>> THEN "none"
    ELSE IF prune_flag THEN "prune_graph"
    ELSE "update_graph"

\* Lines 86-89: the maintenance apply() runs after the commit.
maintenance(prune_flag, removed, added) ==
    IF prune_flag THEN "prune_graph"
    ELSE IF removed # <<>> \/ added # <<>> THEN "update_graph"
    ELSE "none"

\* Mutant of commit_remove: the last recorded removal is not committed.
commit_remove_short(g, removed) ==
    remove_nodes(g, SubSeq(removed, 1, Len(removed) - 1))

\* Line 83: the commit of the removals.
commit_remove(g, removed) == remove_nodes(g, removed)

\* Mutant of commit_add: the recorded graph names are not passed on, so every node
\* goes to the top-level graph.
commit_add_top(g, added, name_to_graph) ==
    add_nodes(g, added, [k \in DOMAIN name_to_graph |-> MainGraph])

\* Line 84: the commit of the additions, each into its recorded graph.
commit_add(g, added, name_to_graph) == add_nodes(g, added, name_to_graph)

\* Mutant of ApplyStart: the index maps are computed by the first apply() only and
\* reused by the later ones.
ApplyStart_Stale ==
    /\ pc \in {"idle", "done", "error"}
    /\ applies < MaxApply
    /\ applies' = applies + 1
    /\ input_name_to_nodes' = IF applies = 0 THEN InputNameToNodes(graph)
                                              ELSE input_name_to_nodes
    /\ output_name_to_node' = IF applies = 0 THEN OutputNameToNode(graph)
                                              ELSE output_name_to_node
    /\ type_idx' = 0
    /\ queue' = <<>>
    /\ log' = <<>>
    /\ trace' = << Event("maps", "") >>
    /\ graph0' = graph
    /\ initializer0' = initializer
    /\ recorded0' = recorded
    /\ pc' = "scan"
    /\ UNCHANGED << graph, initializer, graph_output, orphans, search_op_types,
                    fused_op_type, description, nodes_to_remove, nodes_to_add, prune_graph,
                    node_name_to_graph_name, this_graph_name, fused_count, returned,
                    recorded, committed >>

\* Lines 60-62: apply() is called; the index maps are computed.
ApplyStart ==
    /\ pc \in {"idle", "done", "error"}
    /\ applies < MaxApply
    /\ applies' = applies + 1
    /\ input_name_to_nodes' = InputNameToNodes(graph)
    /\ output_name_to_node' = OutputNameToNode(graph)
    /\ type_idx' = 0
    /\ queue' = <<>>
    /\ log' = <<>>
    /\ trace' = << Event("maps", "") >>
    /\ graph0' = graph
    /\ initializer0' = initializer
    /\ recorded0' = recorded
    /\ pc' = "scan"
    /\ UNCHANGED << graph, initializer, graph_output, orphans, search_op_types,
                    fused_op_type, description, nodes_to_remove, nodes_to_add, prune_graph,
                    node_name_to_graph_name, this_graph_name, fused_count, returned,
                    recorded, committed >>

\* Mutant of NextType: nodes already recorded for removal are not enumerated.
NextType_SkipsRemoved ==
    /\ pc = "scan"
    /\ queue = <<>>
    /\ type_idx < Len(search_op_types)
    /\ type_idx' = type_idx + 1
    /\ queue' = SelectSeq(get_nodes_by_op_type(graph, orphans, search_op_types[type_idx + 1]),
                          LAMBDA n : n \notin Range(nodes_to_remove))
    /\ UNCHANGED << graph, initializer, graph_output, orphans, search_op_types,
                    fused_op_type, description, nodes_to_remove, nodes_to_add, prune_graph,
                    node_name_to_graph_name, this_graph_name, fused_count, pc,
                    input_name_to_nodes, output_name_to_node, log, trace, returned,
                    applies, graph0, initializer0, recorded, recorded0, committed >>

\* Lines 65-66: the next search operator type; its nodes are enumerated.
NextType ==
    /\ pc = "scan"
    /\ queue = <<>>
    /\ type_idx < Len(search_op_types)
    /\ type_idx' = type_idx + 1
    /\ queue' = get_nodes_by_op_type(graph, orphans, search_op_types[type_idx + 1])
    /\ UNCHANGED << graph, initializer, graph_output, orphans, search_op_types,
                    fused_op_type, description, nodes_to_remove, nodes_to_add, prune_graph,
                    node_name_to_graph_name, this_graph_name, fused_count, pc,
                    input_name_to_nodes, output_name_to_node, log, trace, returned,
                    applies, graph0, initializer0, recorded, recorded0, committed >>

\* Mutant of GraphNotFound: the owning graph is checked only after fuse was called for
\* the candidate.
GraphNotFound_Late ==
    /\ pc = "scan"
    /\ queue # <<>>
    /\ get_graph_by_node(graph, Head(queue)) = None
    /\ pc' = "error"
    /\ trace' = trace \o << Event("fuse", Head(queue).name), Event("raise", Head(queue).name) >>
    /\ UNCHANGED << graph, initializer, graph_output, orphans, search_op_types,
                    fused_op_type, description, nodes_to_remove, nodes_to_add, prune_graph,
                    node_name_to_graph_name, this_graph_name, fused_count,
                    input_name_to_nodes, output_name_to_node, type_idx, queue, log,
                    returned, applies, graph0, initializer0, recorded, recorded0,
                    committed >>

\* Lines 67-69: no graph owns the candidate.
GraphNotFound ==
    /\ pc = "scan"
    /\ queue # <<>>
    /\ get_graph_by_node(graph, Head(queue)) = None
    /\ pc' = "error"
    /\ trace' = Append(trace, Event("raise", Head(queue).name))
    /\ UNCHANGED << graph, initializer, graph_output, orphans, search_op_types,
                    fused_op_type, description, nodes_to_remove, nodes_to_add, prune_graph,
                    node_name_to_graph_name, this_graph_name, fused_count,
                    input_name_to_nodes, output_name_to_node, type_idx, queue, log,
                    returned, applies, graph0, initializer0, recorded, recorded0, committed >>

\* Mutant of scope_of: the name of the top-level graph is recorded for every candidate.
scope_of_top(g, node) == MainGraph

\* The scope line 70 records for a candidate.
scope_of(g, node) == get_graph_by_node(g, node)

\* Lines 67-71: the owning graph is recorded and fuse is called for the candidate.
FuseCall ==
    /\ pc = "scan"
    /\ queue # <<>>
    /\ get_graph_by_node(graph, Head(queue)) # None
    /\ this_graph_name' = scope_of(graph, Head(queue))
    /\ trace' = Append(trace, Event("fuse", Head(queue).name))
    /\ pc' = "fuse"
    /\ UNCHANGED << graph, initializer, graph_output, orphans, search_op_types,
                    fused_op_type, description, nodes_to_remove, nodes_to_add, prune_graph,
                    node_name_to_graph_name, fused_count, input_name_to_nodes,
                    output_name_to_node, type_idx, queue, log, returned, applies, graph0,
                    initializer0, recorded, recorded0, committed >>

\* Inside fuse: self.nodes_to_remove.extend(ns) for nodes of the matched pattern.
FuseRemove ==
    /\ pc = "fuse"
    /\ recorded < MaxEdits
    /\ recorded' = recorded + 1
    /\ \E ns \in Matchable(Head(queue), output_name_to_node) :
          /\ nodes_to_remove' = nodes_to_remove \o ns
          /\ committed' = [committed EXCEPT !.rem = @ \o [i \in 1..Len(ns) |-> 0]]
    /\ UNCHANGED << graph, initializer, graph_output, orphans, search_op_types,
                    fused_op_type, description, nodes_to_add, prune_graph,
                    node_name_to_graph_name, this_graph_name, fused_count, pc,
                    input_name_to_nodes, output_name_to_node, type_idx, queue, log, trace,
                    returned, applies, graph0, initializer0, recorded0 >>

\* Inside fuse: self.nodes_to_add.append(n) and
\* self.node_name_to_graph_name[n.name] = self.this_graph_name.
FuseAdd ==
    /\ pc = "fuse"
    /\ recorded < MaxEdits
    /\ recorded' = recorded + 1
    /\ \E n \in NewNodes :
          /\ nodes_to_add' = Append(nodes_to_add, n)
          /\ node_name_to_graph_name' = DictSet(node_name_to_graph_name, n.name, this_graph_name)
    /\ committed' = [committed EXCEPT !.add = Append(@, 0)]
    /\ UNCHANGED << graph, initializer, graph_output, orphans, search_op_types,
                    fused_op_type, description, nodes_to_remove, prune_graph,
                    this_graph_name, fused_count, pc, input_name_to_nodes,
                    output_name_to_node, type_idx, queue, log, trace, returned, applies,
                    graph0, initializer0, recorded0 >>

\* Inside fuse: self.prune_graph = True.
FusePrune ==
    /\ pc = "fuse"
    /\ ~prune_graph
    /\ recorded < MaxEdits
    /\ recorded' = recorded + 1
    /\ prune_graph' = TRUE
    /\ UNCHANGED << graph, initializer, graph_output, orphans, search_op_types,
                    fused_op_type, description, nodes_to_remove, nodes_to_add,
                    node_name_to_graph_name, this_graph_name, fused_count, pc,
                    input_name_to_nodes, output_name_to_node, type_idx, queue, log, trace,
                    returned, applies, graph0, initializer0, recorded0, committed >>

\* Inside fuse: self.increase_counter(label).
FuseCount ==
    /\ pc = "fuse"
    /\ recorded < MaxEdits
    /\ recorded' = recorded + 1
    /\ fused_count' = increase_counter(fused_count, fused_op_type)
    /\ UNCHANGED << graph, initializer, graph_output, orphans, search_op_types,
                    fused_op_type, description, nodes_to_remove, nodes_to_add, prune_graph,
                    node_name_to_graph_name, this_graph_name, pc, input_name_to_nodes,
                    output_name_to_node, type_idx, queue, log, trace, returned, applies,
                    graph0, initializer0, recorded0, committed >>

\* Inside fuse: self.add_initializer(...); a failed construction propagates out of
\* fuse and out of apply().
FuseAddInitializer ==
    /\ pc = "fuse"
    /\ recorded < MaxEdits
    /\ \E call \in FuseInitCalls :
          LET r == add_initializer(initializer, this_graph_name, call)
          IN  /\ initializer' = r.initializer
              /\ returned' = [call |-> call, ok |-> r.ok, tensor |-> r.tensor,
                              scope |-> this_graph_name, candidate |-> Head(queue).name]
              /\ pc' = IF r.ok THEN "fuse" ELSE "error"
              /\ recorded' = IF r.ok THEN recorded + 1 ELSE recorded
              /\ trace' = IF r.ok THEN trace
                          ELSE Append(trace, Event("raise", Head(queue).name))
    /\ UNCHANGED << graph, graph_output, orphans, search_op_types, fused_op_type,
                    description, nodes_to_remove, nodes_to_add, prune_graph,
                    node_name_to_graph_name, this_graph_name, fused_count,
                    input_name_to_nodes, output_name_to_node, type_idx, queue, log,
                    applies, graph0, initializer0, recorded0, committed >>

\* Mutant of FuseReturn: the removals are committed inside the loop, after each fuse call.
FuseReturn_Commits ==
    /\ pc = "fuse"
    /\ pc' = "scan"
    /\ queue' = Tail(queue)
    /\ graph' = remove_nodes(graph, nodes_to_remove).graph
    /\ UNCHANGED << initializer, graph_output, orphans, search_op_types,
                    fused_op_type, description, nodes_to_remove, nodes_to_add, prune_graph,
                    node_name_to_graph_name, this_graph_name, fused_count,
                    input_name_to_nodes, output_name_to_node, type_idx, log, trace,
                    returned, applies, graph0, initializer0, recorded, recorded0,
                    committed >>

\* fuse returns; the loop of line 66 moves to the next candidate.
FuseReturn ==
    /\ pc = "fuse"
    /\ pc' = "scan"
    /\ queue' = Tail(queue)
    /\ UNCHANGED << graph, initializer, graph_output, orphans, search_op_types,
                    fused_op_type, description, nodes_to_remove, nodes_to_add, prune_graph,
                    node_name_to_graph_name, this_graph_name, fused_count,
                    input_name_to_nodes, output_name_to_node, type_idx, log, trace,
                    returned, applies, graph0, initializer0, recorded, recorded0, committed >>

\* Mutant of FuseRaise: the additions are committed on the way out of a failed scan.
FuseRaise_Commits ==
    /\ pc = "fuse"
    /\ pc' = "error"
    /\ trace' = Append(trace, Event("raise", Head(queue).name))
    /\ graph' = add_nodes(graph, nodes_to_add, node_name_to_graph_name).graph
    /\ UNCHANGED << initializer, graph_output, orphans, search_op_types,
                    fused_op_type, description, nodes_to_remove, nodes_to_add, prune_graph,
                    node_name_to_graph_name, this_graph_name, fused_count,
                    input_name_to_nodes, output_name_to_node, type_idx, queue, log,
                    returned, applies, graph0, initializer0, recorded, recorded0,
                    committed >>

\* fuse raises (line 53 in the base class, or an error of the pass); apply() does not
\* catch it.
FuseRaise ==
    /\ pc = "fuse"
    /\ pc' = "error"
    /\ trace' = Append(trace, Event("raise", Head(queue).name))
    /\ UNCHANGED << graph, initializer, graph_output, orphans, search_op_types,
                    fused_op_type, description, nodes_to_remove, nodes_to_add, prune_graph,
                    node_name_to_graph_name, this_graph_name, fused_count,
                    input_name_to_nodes, output_name_to_node, type_idx, queue, log,
                    returned, applies, graph0, initializer0, recorded, recorded0, committed >>

\* Mutant of Report: the additions are committed before the removals, and again
\* after them.
Report_AddsFirst ==
    /\ pc = "scan"
    /\ queue = <<>>
    /\ type_idx = Len(search_op_types)
    /\ log' = report(fused_count, nodes_to_add, fused_op_type, description)
    /\ LET r == add_nodes(graph, nodes_to_add, node_name_to_graph_name)
       IN  /\ graph' = r.graph
           /\ trace' = Append(trace, Event("report", ""))
                             \o [i \in 1..r.count |-> Event("add", nodes_to_add[i].name)]
    /\ pc' = "remove"
    /\ UNCHANGED << initializer, graph_output, orphans, search_op_types,
                    fused_op_type, description, nodes_to_remove, nodes_to_add, prune_graph,
                    node_name_to_graph_name, this_graph_name, fused_count,
                    input_name_to_nodes, output_name_to_node, type_idx, queue, returned,
                    applies, graph0, initializer0, recorded, recorded0, committed >>

\* Lines 73-81: every candidate was visited; the counts are reported.
Report ==
    /\ pc = "scan"
    /\ queue = <<>>
    /\ type_idx = Len(search_op_types)
    /\ log' = report(fused_count, nodes_to_add, fused_op_type, description)
    /\ trace' = Append(trace, Event("report", ""))
    /\ pc' = "remove"
    /\ UNCHANGED << graph, initializer, graph_output, orphans, search_op_types,
                    fused_op_type, description, nodes_to_remove, nodes_to_add, prune_graph,
                    node_name_to_graph_name, this_graph_name, fused_count,
                    input_name_to_nodes, output_name_to_node, type_idx, queue, returned,
                    applies, graph0, initializer0, recorded, recorded0, committed >>

\* Line 83: self.model.remove_nodes(self.nodes_to_remove).
RemoveNodes ==
    /\ pc = "remove"
    /\ LET r == commit_remove(graph, nodes_to_remove)
       IN  /\ graph' = r.graph
           /\ trace' = trace \o [i \in 1..r.count |-> Event("remove", nodes_to_remove[i].name)]
                             \o (IF r.failed THEN << Event("raise", "") >> ELSE <<>>)
           /\ pc' = IF r.failed THEN "error" ELSE "add"
    /\ committed' = [committed EXCEPT !.rem = Bump(@, Len(nodes_to_remove))]
    /\ UNCHANGED << initializer, graph_output, orphans, search_op_types, fused_op_type,
                    description, nodes_to_remove, nodes_to_add, prune_graph,
                    node_name_to_graph_name, this_graph_name, fused_count,
                    input_name_to_nodes, output_name_to_node, type_idx, queue, log,
                    returned, applies, graph0, initializer0, recorded, recorded0 >>

\* Line 84: self.model.add_nodes(self.nodes_to_add, self.node_name_to_graph_name).
AddNodes ==
    /\ pc = "add"
    /\ LET r == commit_add(graph, nodes_to_add, node_name_to_graph_name)
       IN  /\ graph' = r.graph
           /\ trace' = trace \o [i \in 1..r.count |-> Event("add", nodes_to_add[i].name)]
                             \o (IF r.failed THEN << Event("raise", "") >> ELSE <<>>)
           /\ pc' = IF r.failed THEN "error" ELSE "maintain"
    /\ committed' = [committed EXCEPT !.add = Bump(@, Len(nodes_to_add))]
    /\ UNCHANGED << initializer, graph_output, orphans, search_op_types, fused_op_type,
                    description, nodes_to_remove, nodes_to_add, prune_graph,
                    node_name_to_graph_name, this_graph_name, fused_count,
                    input_name_to_nodes, output_name_to_node, type_idx, queue, log,
                    returned, applies, graph0, initializer0, recorded, recorded0 >>

\* Mutant of Maintain: apply() does not return after the maintenance but runs it
\* again and again.
Maintain_Again ==
    /\ pc = "maintain"
    /\ LET m == maintenance(prune_graph, nodes_to_remove, nodes_to_add)
       IN  /\ graph' = CASE m = "prune_graph" -> prune(graph, graph_output)
                         [] m = "update_graph" -> update_graph(graph)
                         [] OTHER -> graph
           /\ trace' = IF m = "none" \/ Event(m, "") \in Range(trace) THEN trace
                       ELSE Append(trace, Event(m, ""))
    /\ pc' = "maintain"
    /\ UNCHANGED << initializer, graph_output, orphans, search_op_types, fused_op_type,
                    description, nodes_to_remove, nodes_to_add, prune_graph,
                    node_name_to_graph_name, this_graph_name, fused_count,
                    input_name_to_nodes, output_name_to_node, type_idx, queue, log,
                    returned, applies, graph0, initializer0, recorded, recorded0, committed >>

\* Mutant of Maintain: apply() clears prune_graph once the maintenance has run.
Maintain_ResetsFlag ==
    /\ pc = "maintain"
    /\ LET m == maintenance(prune_graph, nodes_to_remove, nodes_to_add)
       IN  /\ graph' = CASE m = "prune_graph" -> prune(graph, graph_output)
                         [] m = "update_graph" -> update_graph(graph)
                         [] OTHER -> graph
           /\ trace' = IF m = "none" THEN trace ELSE Append(trace, Event(m, ""))
    /\ prune_graph' = FALSE
    /\ pc' = "done"
    /\ UNCHANGED << initializer, graph_output, orphans, search_op_types, fused_op_type,
                    description, nodes_to_remove, nodes_to_add,
                    node_name_to_graph_name, this_graph_name, fused_count,
                    input_name_to_nodes, output_name_to_node, type_idx, queue, log,
                    returned, applies, graph0, initializer0, recorded, recorded0, committed >>

\* Lines 86-89: pruning, the incremental update, or nothing; apply() returns.
Maintain ==
    /\ pc = "maintain"
    /\ LET m == maintenance(prune_graph, nodes_to_remove, nodes_to_add)
       IN  /\ graph' = CASE m = "prune_graph" -> prune(graph, graph_output)
                         [] m = "update_graph" -> update_graph(graph)
                         [] OTHER -> graph
           /\ trace' = IF m = "none" THEN trace ELSE Append(trace, Event(m, ""))
    /\ pc' = "done"
    /\ UNCHANGED << initializer, graph_output, orphans, search_op_types, fused_op_type,
                    description, nodes_to_remove, nodes_to_add, prune_graph,
                    node_name_to_graph_name, this_graph_name, fused_count,
                    input_name_to_nodes, output_name_to_node, type_idx, queue, log,
                    returned, applies, graph0, initializer0, recorded, recorded0, committed >>

Next ==
    \/ ApplyStart
    \/ NextType
    \/ GraphNotFound
    \/ FuseCall
    \/ FuseRemove
    \/ FuseAdd
    \/ FusePrune
    \/ FuseCount
    \/ FuseAddInitializer
    \/ FuseReturn
    \/ FuseRaise
    \/ Report
    \/ RemoveNodes
    \/ AddNodes
    \/ Maintain

Spec == Init /\ [][Next]_vars

\* The steps of a running apply() that the interpreter takes by itself: the loops of
\* lines 65-71 advance, a fuse call returns or raises, and lines 73-89 follow.
Progress ==
    \/ NextType
    \/ GraphNotFound
    \/ FuseCall
    \/ FuseReturn
    \/ FuseRaise
    \/ Report
    \/ RemoveNodes
    \/ AddNodes
    \/ Maintain

\* The constructions on which apply() is followed to its end: every one of Init, except
\* that on the model with a populated subgraph the pass searches a single type.
InitLive == Init /\ (graph[SubGraph] # <<>> => Len(search_op_types) = 1)

\* apply() runs synchronously: once called it keeps executing, and every fuse call
\* returns or raises. Calling apply() again is the caller's choice.
SpecLive == InitLive /\ [][Next]_vars /\ WF_vars(Progress)

----------------------------------------------------------------------------
(* add_initializer called with arbitrary arguments *)

Values == { -1, 1, 300 }

RECURSIVE SeqsUpTo(_, _)
SeqsUpTo(S, n) ==
    IF n = 0 THEN { <<>> }
    ELSE LET shorter == SeqsUpTo(S, n - 1)
         IN  shorter \cup { Append(q, v) : q \in shorter, v \in S }

\* Values payloads: numpy arrays of a numeric or text dtype, or plain lists.
Payloads ==
    [ndarray : {TRUE}, dtype : {"int64", "float32", "str"}, data : SeqsUpTo(Values, MaxVals)]
      \cup [ndarray : {FALSE}, dtype : {"list"}, data : SeqsUpTo(Values, MaxVals)]

InitializerCalls ==
    [called : {TRUE}, name : {"bias"}, data_type : {"FLOAT", "INT8", "INT64"},
     dims : { <<n>> : n \in 0..MaxVals } \cup { <<1, MaxVals>> },
     vals : Payloads, raw : BOOLEAN]

\* A caller invokes add_initializer on the freshly constructed pass.
CallAddInitializer ==
    /\ pc = "idle"
    /\ returned = NoReturn
    /\ \E call \in InitializerCalls :
          LET r == add_initializer(initializer, this_graph_name, call)
          IN  /\ initializer' = r.initializer
              /\ returned' = [call |-> call, ok |-> r.ok, tensor |-> r.tensor,
                              scope |-> this_graph_name, candidate |-> ""]
    /\ UNCHANGED << graph, graph_output, orphans, search_op_types, fused_op_type,
                    description, nodes_to_remove, nodes_to_add, prune_graph,
                    node_name_to_graph_name, this_graph_name, fused_count, pc,
                    input_name_to_nodes, output_name_to_node, type_idx, queue, log, trace,
                    applies, graph0, initializer0, recorded, recorded0, committed >>

NextBuilder == CallAddInitializer

SpecBuilder == Init /\ [][NextBuilder]_vars

----------------------------------------------------------------------------
(* Properties *)

IsPrefix(a, b) == Len(a) <= Len(b) /\ SubSeq(b, 1, Len(a)) = a

Happened(ev) == \E i \in 1..Len(trace) : trace[i].ev = ev

\* apply() raised during the scan: before the report, hence before any commit.
ScanAborted == pc = "error" /\ ~Happened("report")

NodesUntouched == graph = graph0
InitializersUntouched == initializer = initializer0
InitializersOnlyAppended ==
    \A g \in GraphNameSet : IsPrefix(initializer0[g], initializer[g])

AllCommitted(n) ==
    /\ \A i \in 1..Len(committed.rem) : committed.rem[i] >= n
    /\ \A i \in 1..Len(committed.add) : committed.add[i] >= n

\* C2, as claimed: an apply() that follows a completed apply() on the same pass object,
\* and during which fuse records nothing, ends with the graph it started with.
C2_SecondApplyNoOp ==
    (pc = "done" /\ applies >= 2 /\ recorded = recorded0 /\ AllCommitted(2))
        => graph = graph0

\* C3: on a freshly constructed pass whose fuse records nothing, apply() ends with the
\* nodes and initializers it started with, performs no removal, addition or
\* maintenance, and reports nothing.
C3_NoMatchNoChange ==
    (applies = 1 /\ recorded = 0 /\ Happened("report")) =>
        /\ NodesUntouched /\ InitializersUntouched
        /\ log = <<>>
        /\ \A i \in 1..Len(trace) : trace[i].ev \in {"maps", "fuse", "report"}
        /\ pc \in {"remove", "add", "maintain", "done"}

\* C3 witness: a first apply() visited a candidate, recorded nothing, and returned.
C3_Witness ==
    pc = "done" /\ applies = 1 /\ recorded = 0 /\ Happened("fuse")

\* C4, as claimed: every recorded removal and every recorded addition is handed to
\* the Graph Model by at most one commit.
C4_CommittedOnce ==
    /\ \A i \in 1..Len(committed.rem) : committed.rem[i] <= 1
    /\ \A i \in 1..Len(committed.add) : committed.add[i] <= 1

\* The nodes of graph g after the pre-apply nodes lose the removed ones and gain the
\* added ones recorded for g.
Expected(g) ==
    SelectSeq(graph0[g], LAMBDA n : n \notin Range(nodes_to_remove))
      \o SelectSeq(nodes_to_add, LAMBDA n : node_name_to_graph_name[n.name] = g)

ChainFused ==
    /\ graph0[MainGraph] = <<NodeA, NodeB, NodeC>>
    /\ Range(nodes_to_remove) = {NodeA, NodeB}
    /\ nodes_to_add = <<NodeAB>>

\* C5: after a successful first apply() with prune_graph unset, every graph holds its
\* pre-apply nodes minus nodes_to_remove plus the nodes_to_add recorded for it, the
\* kept nodes unchanged; for the chain A->B->C with {A, B} removed and AB' added the
\* graph holds exactly AB' and C, and C still reads t2.
C5_CommitIsRemoveThenAdd ==
    (pc = "done" /\ applies = 1 /\ ~prune_graph) =>
        /\ \A g \in GraphNameSet : graph[g] = Expected(g)
        /\ ChainFused =>
              /\ Len(graph[MainGraph]) = 2
              /\ Range(graph[MainGraph]) = {NodeAB, NodeC}
              /\ \E n \in Range(graph[MainGraph]) : n.name = "C" /\ n.input = <<"t2">>

\* C5 witness: the chain A->B->C was fused into AB' and C by a first apply().
C5_Witness == pc = "done" /\ applies = 1 /\ ~prune_graph /\ ChainFused

\* No node left in the graph reads a tensor that a removed node produced, unless an
\* added node produces it.
NoDanglingConsumer ==
    \A r \in Range(nodes_to_remove) : \A t \in Range(r.output) :
        \/ \E a \in Range(nodes_to_add) : t \in Range(a.output)
        \/ \A n \in Range(nodes(graph)) : t \notin Range(n.input)

\* The recorded edits are closed: each consumer of a removed node's output is removed
\* too, or an added node produces that output.
EditsClosed ==
    \A r \in Range(nodes_to_remove) : \A t \in Range(r.output) :
        \/ \E a \in Range(nodes_to_add) : t \in Range(a.output)
        \/ t \notin DOMAIN input_name_to_nodes
        \/ Range(input_name_to_nodes[t]) \subseteq Range(nodes_to_remove)

CommitDone == pc = "maintain"

C7_ScopeIsOwningGraph ==
    pc = "fuse" =>
        /\ this_graph_name \in GraphNameSet
        /\ Head(queue) \in Range(graph[this_graph_name])
        /\ (returned.ok /\ returned.candidate = Head(queue).name) =>
              /\ returned.scope = this_graph_name
              /\ returned.tensor \in Range(initializer[this_graph_name])

\* C7 witness: after a candidate of the top-level graph, a candidate of the subgraph
\* is being fused and its initializer went into the subgraph.
C7_Witness ==
    /\ pc = "fuse" /\ this_graph_name = SubGraph
    /\ \E i \in 1..Len(trace) : trace[i] = Event("fuse", "B")
    /\ returned.ok /\ returned.candidate = Head(queue).name
    /\ Head(queue).name = "D"

ElementWidth(data_type) ==
    CASE data_type = "FLOAT" -> 4
      [] data_type = "INT8" -> 1
      [] data_type = "INT64" -> 8

Last(q) == q[Len(q)]

\* C8: add_initializer with raw set and an array of N numbers builds a tensor of
\* N * elementWidth(data_type) raw bytes tagged with data_type and dims; with raw unset
\* it builds a tensor of N typed elements; the tensor it registers is the one it
\* returns. The call succeeds when the payload is convertible and dims holds N elements.
C8_PayloadSize ==
    LET c == returned.call
        N == Len(c.vals.data)
        t == returned.tensor
        fits == Product(c.dims) = N
    IN  c.called =>
          /\ returned.ok =>
                /\ t.name = c.name /\ t.data_type = c.data_type /\ t.dims = c.dims
                /\ t.raw = c.raw
                /\ c.raw => Len(t.raw_data) = N * ElementWidth(c.data_type) /\ t.data = <<>>
                /\ ~c.raw => Len(t.data) = N /\ t.raw_data = <<>>
                /\ initializer[MainGraph] # <<>> /\ Last(initializer[MainGraph]) = t
          /\ (c.raw /\ c.vals.ndarray /\ c.vals.dtype # "str" /\ fits) => returned.ok
          /\ (~c.raw /\ fits) => returned.ok

\* C8 witness: two 64-bit integers were stored as eight raw bytes of FLOAT data.
C8_Witness ==
    /\ returned.ok /\ returned.call.raw /\ returned.call.data_type = "FLOAT"
    /\ returned.call.vals.dtype = "int64" /\ Len(returned.call.vals.data) = 2
    /\ Len(returned.tensor.raw_data) = 8

Tally == Cardinality({ i \in 1..Len(nodes_to_add) : nodes_to_add[i].op_type = fused_op_type })

\* C9: once the scan is over the report holds the non-zero entries of fused_count if
\* fused_count has entries, and otherwise the number of nodes_to_add of type
\* fused_op_type, if that number is positive; it is made before any removal or addition.
C9_ReportedCounts ==
    Happened("report") =>
        /\ \A i \in 1..Len(log) : log[i].value > 0
        /\ fused_count # <<>> =>
              /\ Range(log) = { e \in Range(fused_count) : e.value > 0 }
              /\ Len(log) = Cardinality(Range(log))
        /\ fused_count = <<>> =>
              log = IF Tally > 0 THEN << [key |-> description, value |-> Tally] >> ELSE <<>>
        /\ \A i, j \in 1..Len(trace) :
              (trace[i].ev = "report" /\ trace[j].ev \in {"remove", "add"}) => i < j
        /\ pc = "remove" => graph = graph0

\* C9 witness: fused_count is empty and two nodes were added, one of them of the
\* fused operator type, so the report counts one.
C9_Witness ==
    /\ Happened("report") /\ fused_count = <<>>
    /\ Len(nodes_to_add) = 2 /\ Tally = 1 /\ log # <<>>

BeforeCommit == pc \in {"scan", "fuse", "remove"}

----------------------------------------------------------------------------
(* C11: the index maps *)

\* The events of the given kind in the trace of the current apply().
EventsOf(ev) == SelectSeq(trace, LAMBDA e : e.ev = ev)

\* C11: in every apply() the index maps are computed once, first of all, and while the
\* candidates are scanned and fuse runs they are the maps of the graph as it is then.
C11_MapsFresh ==
    /\ applies > 0 => /\ trace # <<>>
                      /\ trace[1].ev = "maps"
                      /\ Len(EventsOf("maps")) = 1
    /\ pc \in {"scan", "fuse"} => /\ input_name_to_nodes = InputNameToNodes(graph)
                                  /\ output_name_to_node = OutputNameToNode(graph)

\* fuse runs in a second apply(), on a graph that the first apply()'s commit changed.
C11_Witness ==
    /\ pc = "fuse"
    /\ applies = 2
    /\ \E n \in NewNodes : n \in Range(nodes(graph))
    /\ input_name_to_nodes # InputNameToNodes([g \in GraphNameSet |-> <<>>])

----------------------------------------------------------------------------
(* C12: the order of the steps of apply() *)

\* The place of an event in the order maps, fuse calls, report, removals, additions,
\* maintenance.
Rank(e) ==
    CASE e.ev = "maps" -> 0
      [] e.ev = "fuse" -> 1
      [] e.ev = "report" -> 2
      [] e.ev = "remove" -> 3
      [] e.ev = "add" -> 4
      [] OTHER -> 5

MaintenanceEvents == SelectSeq(trace, LAMBDA e : e.ev \in {"prune_graph", "update_graph"})

\* C12: the events of an apply() come in the order fuse calls, removals, additions,
\* maintenance, an error being the last event of its apply(); the nodes are those of
\* the start of the call as long as nothing was removed, added or maintained; and a
\* finished apply() made its fuse calls, then removed every entry of nodes_to_remove,
\* then added every entry of nodes_to_add, then ran at most one maintenance.
C12_StepsInOrder ==
    /\ \A i, j \in 1..Len(trace) :
          i < j => /\ trace[i].ev # "raise"
                   /\ trace[j].ev # "raise" => Rank(trace[i]) <= Rank(trace[j])
    /\ (applies > 0 /\ EventsOf("remove") = <<>> /\ EventsOf("add") = <<>>
           /\ MaintenanceEvents = <<>>) => graph = graph0
    /\ pc = "done" =>
          /\ Len(MaintenanceEvents) <= 1
          /\ trace = << Event("maps", "") >> \o EventsOf("fuse") \o << Event("report", "") >>
                \o [i \in 1..Len(nodes_to_remove) |-> Event("remove", nodes_to_remove[i].name)]
                \o [i \in 1..Len(nodes_to_add) |-> Event("add", nodes_to_add[i].name)]
                \o MaintenanceEvents

\* A finished apply() that called fuse twice, removed, added and maintained.
C12_Witness ==
    /\ pc = "done"
    /\ Len(EventsOf("fuse")) >= 2
    /\ EventsOf("remove") # <<>>
    /\ EventsOf("add") # <<>>
    /\ MaintenanceEvents # <<>>

----------------------------------------------------------------------------
(* C13: the maintenance after the commit *)

\* C13: a finished apply() ran full pruning and nothing else if prune_graph is set;
\* otherwise the incremental update and nothing else if nodes_to_remove or nodes_to_add
\* is non-empty; otherwise no maintenance.
C13_OneMaintenance ==
    pc = "done" =>
        MaintenanceEvents =
            IF prune_graph THEN << Event("prune_graph", "") >>
            ELSE IF nodes_to_remove # <<>> \/ nodes_to_add # <<>>
                 THEN << Event("update_graph", "") >>
            ELSE <<>>

\* A finished apply() pruned although no edit was recorded.
C13_Witness ==
    /\ pc = "done"
    /\ applies = 1
    /\ prune_graph
    /\ nodes_to_remove = <<>>
    /\ nodes_to_add = <<>>
    /\ Happened("prune_graph")

----------------------------------------------------------------------------
(* C14: a candidate that no graph owns *)

\* Lines 65-66: the candidates of one apply(), in the order the loops visit them.
RECURSIVE Candidates(_, _, _)
Candidates(g, orph, types) ==
    IF types = <<>> THEN <<>>
    ELSE get_nodes_by_op_type(g, orph, Head(types)) \o Candidates(g, orph, Tail(types))

\* apply() raised because no graph owns the candidate n.
GraphNotFoundAt(n) ==
    /\ pc = "error"
    /\ trace # <<>>
    /\ Last(trace) = Event("raise", n.name)
    /\ n \in Range(orphans)
    /\ get_graph_by_node(graph, n) = None

\* C14: when apply() raised at a candidate that no graph owns, fuse was called for the
\* candidates enumerated before it and for no other, nothing was reported, removed,
\* added, pruned or updated, and the nodes are those of the start of the call.
C14_NotFoundStopsApply ==
    \A n \in Range(orphans) :
        GraphNotFoundAt(n) =>
            LET cs == Candidates(graph0, orphans, search_op_types)
                first == CHOOSE i \in 1..Len(cs) :
                            /\ cs[i] = n
                            /\ \A j \in 1..(i - 1) : cs[j] # n
            IN  /\ \E i \in 1..Len(cs) : cs[i] = n
                /\ EventsOf("fuse") = [j \in 1..(first - 1) |-> Event("fuse", cs[j].name)]
                /\ \A e \in Range(trace) : e.ev \in {"maps", "fuse", "raise"}
                /\ graph = graph0

\* apply() raised at the orphan after fuse recorded edits for an earlier candidate: the
\* edits stay uncommitted, and a later candidate of the list is never visited.
C14_Witness ==
    /\ GraphNotFoundAt(NodeD)
    /\ Happened("fuse")
    /\ nodes_to_remove # <<>>
    /\ nodes_to_add # <<>>
    /\ Len(Candidates(graph0, orphans, search_op_types)) > Len(EventsOf("fuse")) + 1

----------------------------------------------------------------------------
(* C15: one fuse call per candidate *)

\* The fuse calls of a complete scan of the current apply().
ExpectedFuseCalls ==
    LET cs == Candidates(graph0, orphans, search_op_types)
    IN  [i \in 1..Len(cs) |-> Event("fuse", cs[i].name)]

\* C15, as claimed: within one apply() fuse is called at most once for a node, and
\* once the scan is over it was called exactly once for every node of a searched type.
C15_FuseOncePerNode ==
    /\ \A n \in Range(nodes(graph0)) :
          Len(SelectSeq(trace, LAMBDA e : e = Event("fuse", n.name))) <= 1
    /\ Happened("report") =>
          \A n \in Range(nodes(graph0)) :
              n.op_type \in Range(search_op_types) => Event("fuse", n.name) \in Range(trace)

\* C15, amended: the fuse calls of an apply() follow the enumeration (the listed types
\* in order, a type once per time it is listed, the nodes of a type in model order,
\* nodes recorded for removal included), one call per enumerated candidate; when the
\* scan is over every enumerated candidate had its call.
C15_FuseOncePerEnumeration ==
    /\ applies > 0 => IsPrefix(EventsOf("fuse"), ExpectedFuseCalls)
    /\ Happened("report") => EventsOf("fuse") = ExpectedFuseCalls

\* fuse runs for MatMul node A after the call for Add node B recorded A and B for
\* removal (the call for A alone cannot record B).
C15_Witness ==
    /\ pc = "fuse"
    /\ applies = 1
    /\ EventsOf("fuse") = << Event("fuse", NodeB.name), Event("fuse", NodeA.name) >>
    /\ nodes_to_remove = << NodeA, NodeB >>
    /\ recorded = 1

----------------------------------------------------------------------------
(* C16: add_initializer with a payload that does not convert *)

\* A raw payload that astype cannot convert: an array of text, or no array at all.
Inconvertible(vals) == ~vals.ndarray \/ vals.dtype = "str"

\* C16: add_initializer called with raw set and a payload that cannot be converted
\* fails, returns no tensor, and no scope of the Graph Model holds an initializer
\* afterwards (none did before the call).
C16_FailedCallRegistersNothing ==
    LET c == returned.call
    IN  (c.called /\ c.raw /\ Inconvertible(c.vals)) =>
            /\ ~returned.ok
            /\ returned.tensor = NoTensor
            /\ \A g \in GraphNameSet : initializer[g] = <<>>

\* A raw call whose dims fit its payload failed on an array of text.
C16_Witness ==
    /\ returned.call.called
    /\ returned.call.raw
    /\ returned.call.vals.ndarray
    /\ returned.call.vals.dtype = "str"
    /\ Len(returned.call.vals.data) = 2
    /\ Product(returned.call.dims) = 2
    /\ ~returned.ok

----------------------------------------------------------------------------
(* C17: apply() terminates *)

Running == pc \in {"scan", "fuse", "remove", "add", "maintain"}

\* apply() raised a structural-consistency error: no graph owns a candidate, or the
\* commit referred to a node or scope that the Graph Model does not hold.
StructuralError ==
    /\ pc = "error"
    /\ Happened("report") \/ \E n \in Range(orphans) : GraphNotFoundAt(n)

\* apply() raised the error of a fuse call: the raise follows the fuse call for the
\* same candidate.
FuseError ==
    /\ pc = "error"
    /\ ~Happened("report")
    /\ Len(trace) >= 2
    /\ Last(trace).ev = "raise"
    /\ trace[Len(trace) - 1] = Event("fuse", Last(trace).node)

\* C17, as claimed: an apply() that ended either finished the commit and the
\* maintenance or raised a structural-consistency error.
C17_EndsDoneOrStructural == (applies > 0 /\ ~Running) => pc = "done" \/ StructuralError

\* C17, amended: every running apply() ends (the next apply() starts only from an ended
\* one), and it ends in one of three ways: commit and maintenance finished, a
\* structural-consistency error, or the error of a fuse call.
C17_ApplyTerminates ==
    /\ []((applies > 0 /\ ~Running) => pc = "done" \/ StructuralError \/ FuseError)
    /\ Running ~> ~Running

\* An apply() ended with the error of its second fuse call, edits pending.
C17_Witness ==
    /\ FuseError
    /\ Len(EventsOf("fuse")) = 2
    /\ nodes_to_add # <<>>

----------------------------------------------------------------------------
(* C18: prune_graph stays set *)

\* C18, as claimed: an apply() that ended, that was not the first, and in which fuse
\* recorded nothing and so found prune_graph already set, pruned.
C18_EveryLaterApplyPrunes ==
    (applies > 1 /\ ~Running /\ prune_graph /\ recorded = recorded0) =>
        Happened("prune_graph")

\* C18, amended: no step resets prune_graph, and every apply() that gets to its
\* maintenance step with the flag set prunes the graph from its outputs and does
\* nothing else there.
C18_PruneFlagSticks ==
    [][ /\ prune_graph => prune_graph'
        /\ (pc = "maintain" /\ prune_graph) =>
              /\ pc' = "done"
              /\ graph' = prune(graph, graph_output)
              /\ trace' = Append(trace, Event("prune_graph", "")) ]_vars

\* A second apply() whose fuse calls recorded nothing, with both lists empty, pruned
\* because an earlier apply() had set the flag.
C18_Witness ==
    /\ pc = "done"
    /\ applies = 2
    /\ prune_graph
    /\ recorded = recorded0
    /\ nodes_to_remove = <<>>
    /\ nodes_to_add = <<>>
    /\ Last(trace) = Event("prune_graph", "")

====
